---- MODULE Spec2Model ----
(***************************************************************************)
(* Model of the gold-price server (src/src/server.ts): the in-memory TTL   *)
(* cache (class MemoryCache), the three fetch functions that read through  *)
(* it, and the route handlers that call them.                              *)
(*                                                                         *)
(* Time is counted in abstract clock units.  The TTLs of CACHE_CONFIG are   *)
(* scaled down to 0, 1 and 2 units, keeping their order, and               *)
(* MAX_CACHE_SIZE to 2 entries, fewer than the keys in use.                *)
(***************************************************************************)
EXTENDS Integers, Sequences, FiniteSets, TLC

VARIABLES
    cache,        \* MemoryCache.cache: the Map, as the sequence of its entries in iteration order
    now,          \* Date.now()
    timerActive,  \* MemoryCache.cleanupTimer is armed
    ret,          \* what the last call of a MemoryCache method returned, or the last response sent
    calls,        \* the route handlers that wait for an upstream response
    exited        \* process.exit(0) has run

vars == <<cache, now, timerActive, ret, calls, exited>>

----------------------------------------------------------------------------
(* Bounds of the model *)

MaxTime == 2

----------------------------------------------------------------------------
(* CACHE_CONFIG, scaled *)

CURRENT_PRICE_TTL == 0
HISTORICAL_DATA_TTL == 1
DATE_SPECIFIC_TTL == 2
MAX_CACHE_SIZE == 2

----------------------------------------------------------------------------
(* Values *)

\* JavaScript null, as get() returns it
Null == [kind |-> "null"]

\* the keys, payloads and ttls the store is driven with when it is used directly
StoreKeys == {"", "a", "b"}
StoreValues == {[kind |-> "val", v |-> 1], [kind |-> "val", v |-> 2]}
StoreTTLs == {0, 1}

\* JavaScript truthiness of a string (if (oldestKey) ...)
TruthyKey(k) == k # ""

----------------------------------------------------------------------------
(* Map<string, CacheEntry>: a sequence of entries with distinct keys, in     *)
(* insertion order.  Map.set on a present key replaces the value and keeps   *)
(* the key's position; on an absent key it appends.                          *)

MapKeys(c) == {c[i].key : i \in 1..Len(c)}

MapHas(c, k) == k \in MapKeys(c)

MapIndex(c, k) == CHOOSE i \in 1..Len(c) : c[i].key = k

MapGet(c, k) == c[MapIndex(c, k)]

MapDelete(c, k) == SelectSeq(c, LAMBDA e : e.key # k)

MapSet(c, k, e) ==
    IF MapHas(c, k) THEN [i \in 1..Len(c) |-> IF c[i].key = k THEN e ELSE c[i]]
    ELSE Append(c, e)

----------------------------------------------------------------------------
(* class MemoryCache *)

\* the expiry test of get, has, cleanup and getStats
\* (variant: an entry exactly ttl old counts as expired)
ExpiredAtBoundary(e, t) == t - e.timestamp >= e.ttl

Expired(e, t) == t - e.timestamp > e.ttl

\* set(key, data, ttl): the store after the call at time t
SetEvict(c) ==
    IF Len(c) >= MAX_CACHE_SIZE /\ Len(c) > 0 /\ TruthyKey(c[1].key)
    THEN MapDelete(c, c[1].key)
    ELSE c

set_store(c, key, data, ttl, t) ==
    MapSet(SetEvict(c), key, [data |-> data, timestamp |-> t, ttl |-> ttl, key |-> key])

\* get(key): what it returns, and the store after the call
\* (variant: get returns null for an entry exactly ttl old)
get_ret_inclusive(c, key, t) ==
    IF ~MapHas(c, key) THEN Null
    ELSE IF t - MapGet(c, key).timestamp >= MapGet(c, key).ttl THEN Null
    ELSE MapGet(c, key).data

get_ret(c, key, t) ==
    IF ~MapHas(c, key) THEN Null
    ELSE IF Expired(MapGet(c, key), t) THEN Null
    ELSE MapGet(c, key).data

get_store(c, key, t) ==
    IF MapHas(c, key) /\ Expired(MapGet(c, key), t) THEN MapDelete(c, key) ELSE c

\* has(key)
has_ret(c, key, t) == MapHas(c, key) /\ ~Expired(MapGet(c, key), t)

\* (variant: has drops every expired entry once it meets one)
has_store_sweep(c, key, t) ==
    IF MapHas(c, key) /\ Expired(MapGet(c, key), t)
    THEN SelectSeq(c, LAMBDA e : ~Expired(e, t))
    ELSE c

has_store(c, key, t) ==
    IF MapHas(c, key) /\ Expired(MapGet(c, key), t) THEN MapDelete(c, key) ELSE c

\* delete(key), clear()
delete_store(c, key) == MapDelete(c, key)

\* (variant: clear keeps the entry inserted last)
clear_store_keep_last(c) == IF Len(c) > 1 THEN <<c[Len(c)]>> ELSE <<>>

clear_store(c) == <<>>

\* cleanup(): collects the expired keys in one pass, then deletes them
\* (variant: only the first expired key is deleted)
cleanup_first_only(c, t) ==
    LET keysToDelete == {c[i].key : i \in {j \in 1..Len(c) : Expired(c[j], t)}}
    IN  IF keysToDelete = {} THEN c
        ELSE MapDelete(c, (CHOOSE k \in keysToDelete :
                              \A l \in keysToDelete : MapIndex(c, k) <= MapIndex(c, l)))

cleanup_store(c, t) ==
    LET keysToDelete == {c[i].key : i \in {j \in 1..Len(c) : Expired(c[j], t)}}
    IN  SelectSeq(c, LAMBDA e : e.key \notin keysToDelete)

\* getStats()
getStats_ret(c, t) ==
    [op |-> "getStats",
     size |-> Len(c),
     maxSize |-> MAX_CACHE_SIZE,
     entries |-> [i \in 1..Len(c) |->
                    [key |-> c[i].key,
                     age |-> t - c[i].timestamp,
                     ttl |-> c[i].ttl,
                     expired |-> t - c[i].timestamp > c[i].ttl]]]

\* (variant: getStats drops the expired entries it meets)
getStats_store_lazy(c, t) == SelectSeq(c, LAMBDA e : ~Expired(e, t))

getStats_store(c, t) == c

----------------------------------------------------------------------------
(* Initial state: the module has been loaded, `cache = new MemoryCache()`   *)
(* has armed the cleanup timer, no request has arrived.                     *)

NoRet == [op |-> "none"]

\* a slot that holds no waiting handler
IdleCall == [route |-> "idle", pc |-> "idle", key |-> "", range |-> <<>>, reqs |-> <<>>]

CallIds == {1, 2}

NoCalls == [c \in CallIds |-> IdleCall]

Init ==
    /\ cache = <<>>
    /\ now = 0
    /\ timerActive = TRUE
    /\ ret = NoRet
    /\ calls = NoCalls
    /\ exited = FALSE

\* the clock advances
Tick ==
    /\ ~exited
    /\ now < MaxTime
    /\ now' = now + 1
    /\ ret' = NoRet
    /\ UNCHANGED <<cache, timerActive, calls, exited>>

\* the interval timer fires: cleanup()
Cleanup ==
    /\ ~exited
    /\ timerActive
    /\ cache' = cleanup_store(cache, now)
    /\ ret' = [op |-> "cleanup", removed |-> Len(cache) - Len(cleanup_store(cache, now))]
    /\ UNCHANGED <<now, timerActive, calls, exited>>

----------------------------------------------------------------------------
(* The store driven directly through its public methods *)

DoSet(key, data, ttl) ==
    /\ cache' = set_store(cache, key, data, ttl, now)
    /\ ret' = [op |-> "set", key |-> key]
    /\ UNCHANGED <<now, timerActive, calls, exited>>

DoGet(key) ==
    /\ cache' = get_store(cache, key, now)
    /\ ret' = [op |-> "get", key |-> key, val |-> get_ret(cache, key, now)]
    /\ UNCHANGED <<now, timerActive, calls, exited>>

DoHas(key) ==
    /\ cache' = has_store(cache, key, now)
    /\ ret' = [op |-> "has", key |-> key, val |-> has_ret(cache, key, now)]
    /\ UNCHANGED <<now, timerActive, calls, exited>>

DoDelete(key) ==
    /\ cache' = delete_store(cache, key)
    /\ ret' = [op |-> "delete", key |-> key]
    /\ UNCHANGED <<now, timerActive, calls, exited>>

DoClear ==
    /\ cache' = clear_store(cache)
    /\ ret' = [op |-> "clear"]
    /\ UNCHANGED <<now, timerActive, calls, exited>>

DoGetStats ==
    /\ cache' = getStats_store(cache, now)
    /\ ret' = getStats_ret(cache, now)
    /\ UNCHANGED <<now, timerActive, calls, exited>>

\* destroy(): clearInterval, then clear()
DoDestroy ==
    /\ timerActive
    /\ timerActive' = FALSE
    /\ cache' = clear_store(cache)
    /\ ret' = [op |-> "destroy"]
    /\ UNCHANGED <<now, calls, exited>>

StoreNext ==
    \/ Tick
    \/ Cleanup
    \/ \E key \in StoreKeys, data \in StoreValues, ttl \in StoreTTLs : DoSet(key, data, ttl)
    \/ \E key \in StoreKeys : DoGet(key)
    \/ \E key \in StoreKeys : DoHas(key)
    \/ \E key \in StoreKeys : DoDelete(key)
    \/ DoClear
    \/ DoGetStats
    \/ DoDestroy

StoreSpec == Init /\ [][StoreNext]_vars

----------------------------------------------------------------------------
(* The server: request parameters and upstream responses *)

\* ?unit= values a request may carry, and String.toLowerCase on them
UnitParams == {"KG", "lb"}

toLowerCase(u) ==
    CASE u = "oz" -> "oz"
      [] u = "KG" -> "kg"
      [] u = "lb" -> "lb"
      [] OTHER -> u

\* Object.keys(UNIT_CONVERSIONS)
UNIT_CONVERSIONS_keys == {"oz", "g", "kg"}

\* validateUnit(unit) returns (TRUE) or throws (FALSE)
validateUnit_ok(unit) == toLowerCase(unit) \in UNIT_CONVERSIONS_keys

\* ?timeframe= values a request may carry
TimeframeParams == {"1W"}

\* :date values, and /^\d{4}-\d{2}-\d{2}$/.test(date) on them
DateParams == {"2024-01-15", "15-01-2024"}

dateRegex_test(d) == d \in {"2024-01-15"}

\* the calendar day of clock value t (one clock unit is taken as one day here)
Today(t) == t

\* getDateRange(timeframe) at time t, in days (a month as 30 days, a year as 365)
getDateRange(timeframe, t) ==
    LET back == CASE timeframe = "1D"  -> 1
                  [] timeframe = "1W"  -> 7
                  [] timeframe = "1M"  -> 30
                  [] timeframe = "3M"  -> 90
                  [] timeframe = "6M"  -> 180
                  [] timeframe = "1Y"  -> 365
                  [] timeframe = "ALL" -> 1825
                  [] OTHER -> 30
    IN  [start |-> Today(t) - back, end |-> Today(t)]

\* cache keys
CurrentKey == "current_gold_price"
HistoricalKey(timeframe) == "historical_" \o timeframe
DateKey(date) == "date_" \o date

\* what an upstream request can come back with: a rejection, or a body
Failed == [ok |-> FALSE]

Quote(symbol) == [kind |-> "quote", symbol |-> symbol]

\* /quote/<symbol>: an array of quotes, possibly empty
QuoteOutcomes(symbol) ==
    {Failed, [ok |-> TRUE, data |-> <<>>], [ok |-> TRUE, data |-> <<Quote(symbol)>>]}

Point(d) == [kind |-> "point", date |-> d]

HistoricalLists == {<<>>, <<Point(2), Point(1)>>}

\* /historical-price-full/<symbol>: a bare array, an object with the array
\* under `historical`, or an object without it
HistoricalOutcomes ==
    {Failed, [ok |-> TRUE, data |-> [shape |-> "object"]]}
    \cup {[ok |-> TRUE, data |-> [shape |-> "array", list |-> l]] : l \in HistoricalLists}
    \cup {[ok |-> TRUE, data |-> [shape |-> "wrapped", historical |-> l]] : l \in HistoricalLists}

\* if (cachedData): a payload is an object or an array, null is falsy
Truthy(v) == v # Null

\* the errors a fetch function can end with
NoError == [name |-> "none"]
OwnError(message) == [name |-> "Error", message |-> message]
AxiosError == [name |-> "AxiosError", message |-> "Request failed"]

----------------------------------------------------------------------------
(* fetchCurrentGoldPrice, fetchHistoricalData, fetchDateSpecificData: the    *)
(* parts that compute                                                        *)

\* lines 284-289: GCUSD first, then GLD
\* (variant: GLD first)
SelectQuoteGldFirst(gldResponse, goldResponse) ==
    IF gldResponse.ok /\ Len(gldResponse.data) > 0 THEN gldResponse.data[1]
    ELSE IF goldResponse.ok /\ Len(goldResponse.data) > 0 THEN goldResponse.data[1]
    ELSE Null

SelectQuote(gldResponse, goldResponse) ==
    IF goldResponse.ok /\ Len(goldResponse.data) > 0 THEN goldResponse.data[1]
    ELSE IF gldResponse.ok /\ Len(gldResponse.data) > 0 THEN gldResponse.data[1]
    ELSE Null

\* lines 330-333 and 346-349: the array out of either response shape, else []
NormalizeHistorical(data) ==
    IF data.shape = "array" THEN data.list
    ELSE IF data.shape = "wrapped" THEN data.historical
    ELSE <<>>

\* lines 387-388: the first element, or null
DateData(data) ==
    LET historicalData == IF data.shape = "wrapped" THEN data.historical
                          ELSE IF data.shape = "array" THEN data.list
                          ELSE <<>>
    IN  IF Len(historicalData) > 0 THEN historicalData[1] ELSE Null

\* Array.prototype.sort by date, ascending and stable (insertion sort)
RECURSIVE InsertByDate(_, _)
InsertByDate(sorted, p) ==
    IF sorted = <<>> THEN <<p>>
    ELSE IF p.date < sorted[1].date THEN <<p>> \o sorted
    ELSE <<sorted[1]>> \o InsertByDate(Tail(sorted), p)

RECURSIVE SortByDate(_)
SortByDate(items) ==
    IF items = <<>> THEN <<>>
    ELSE InsertByDate(SortByDate(SubSeq(items, 1, Len(items) - 1)), items[Len(items)])

\* the requests the fetch functions issue
QuoteRequest(symbol) == [endpoint |-> "quote", symbol |-> symbol]

HistoricalRequest(symbol, from, to) ==
    [endpoint |-> "historical-price-full", symbol |-> symbol, from |-> from, to |-> to]

----------------------------------------------------------------------------
(* Route handlers.  A handler runs from the arrival of its request to its    *)
(* first pending upstream request in one step, and from the arrival of an    *)
(* upstream response to its next pending request or to its response in one   *)
(* step (Node runs each without interleaving), reading one clock value.      *)
(* calls holds the handlers that wait for an upstream response, at most one  *)
(* per element of CallIds; the response a handler sends is left in ret.      *)

\* a request is taken by the first slot that holds no waiting handler
Free(c) ==
    /\ calls[c].pc = "idle"
    /\ \A d \in CallIds : d < c => calls[d].pc # "idle"

Waiting(route, key, range, reqs) ==
    [route |-> route, pc |-> "await", key |-> key, range |-> range, reqs |-> reqs]

\* res.status(400): rejected before the fetch function is called
Rejected(route, error) ==
    [op |-> "res", route |-> route, key |-> "", reqs |-> <<>>, upstream |-> <<>>,
     status |-> 400, error |-> error, thrown |-> NoError, hit |-> FALSE,
     data |-> Null, cached |-> FALSE]

\* res.status(500): the fetch function threw err
Thrown(route, key, reqs, upstream, err) ==
    [op |-> "res", route |-> route, key |-> key, reqs |-> reqs, upstream |-> upstream,
     status |-> 500, error |-> err.message, thrown |-> err, hit |-> FALSE,
     data |-> Null, cached |-> FALSE]

\* no response yet: the handler waits for its next upstream request
Pending(upstream) == [op |-> "pending", upstream |-> upstream]

\* res.json: data is what the fetch function returned, cached is cache.has(key)
\* as the handler evaluates it on the store c, hit tells whether the fetch
\* function returned at its cache check, reqs are the upstream requests it
\* issued, upstream the responses that arrived in this step
Served(route, key, reqs, upstream, c, data, hit) ==
    [op |-> "res", route |-> route, key |-> key, reqs |-> reqs, upstream |-> upstream,
     status |-> 200, error |-> "", thrown |-> NoError, hit |-> hit, data |-> data,
     cached |-> has_ret(c, key, now)]

\* GET /api/gold/current
\* (variant: the cache is looked up before the unit is validated)
CurrentRequestLookupFirst(c, unit) ==
    /\ ~exited
    /\ Free(c)
    /\ UNCHANGED <<now, timerActive, exited>>
    /\ LET cachedData == get_ret(cache, CurrentKey, now)
           c1 == get_store(cache, CurrentKey, now)
       IN  IF ~validateUnit_ok(unit)
           THEN /\ ret' = Rejected("current", "Invalid unit parameter")
                /\ cache' = c1
                /\ UNCHANGED calls
           ELSE IF Truthy(cachedData)
                THEN /\ cache' = has_store(c1, CurrentKey, now)
                     /\ ret' = Served("current", CurrentKey, <<>>, <<>>, c1, cachedData, TRUE)
                     /\ UNCHANGED calls
                ELSE /\ cache' = c1
                     /\ ret' = Pending(<<>>)
                     /\ calls' = [calls EXCEPT ![c] =
                           Waiting("current", CurrentKey, <<>>,
                                   <<QuoteRequest("GLD"), QuoteRequest("GCUSD")>>)]

CurrentRequest(c, unit) ==
    /\ ~exited
    /\ Free(c)
    /\ UNCHANGED <<now, timerActive, exited>>
    /\ IF ~validateUnit_ok(unit)
       THEN /\ ret' = Rejected("current", "Invalid unit parameter")
            /\ UNCHANGED <<cache, calls>>
       ELSE LET cachedData == get_ret(cache, CurrentKey, now)
                c1 == get_store(cache, CurrentKey, now)
            IN  IF Truthy(cachedData)
                THEN /\ cache' = has_store(c1, CurrentKey, now)
                     /\ ret' = Served("current", CurrentKey, <<>>, <<>>, c1, cachedData, TRUE)
                     /\ UNCHANGED calls
                ELSE /\ cache' = c1
                     /\ ret' = Pending(<<>>)
                     /\ calls' = [calls EXCEPT ![c] =
                           Waiting("current", CurrentKey, <<>>,
                                   <<QuoteRequest("GLD"), QuoteRequest("GCUSD")>>)]

\* Promise.allSettled has both outcomes
\* (variant: a fetch that finds an unexpired entry under its key when it
\* completes keeps that entry instead of writing its own)
CurrentSettledKeepFirst(c, gldResponse, goldResponse) ==
    /\ ~exited
    /\ calls[c].route = "current" /\ calls[c].pc = "await"
    /\ UNCHANGED <<now, timerActive, exited>>
    /\ calls' = [calls EXCEPT ![c] = IdleCall]
    /\ LET goldData == SelectQuote(gldResponse, goldResponse)
       IN  IF ~Truthy(goldData)
           THEN /\ UNCHANGED cache
                /\ ret' = Thrown("current", CurrentKey, calls[c].reqs,
                                 <<gldResponse, goldResponse>>,
                                 OwnError("No gold data available from API"))
           ELSE LET c1 == IF has_ret(cache, CurrentKey, now) THEN cache
                          ELSE set_store(cache, CurrentKey, goldData, CURRENT_PRICE_TTL, now)
                IN  /\ cache' = has_store(c1, CurrentKey, now)
                    /\ ret' = Served("current", CurrentKey, calls[c].reqs,
                                     <<gldResponse, goldResponse>>, c1, goldData, FALSE)

CurrentSettled(c, gldResponse, goldResponse) ==
    /\ ~exited
    /\ calls[c].route = "current" /\ calls[c].pc = "await"
    /\ UNCHANGED <<now, timerActive, exited>>
    /\ calls' = [calls EXCEPT ![c] = IdleCall]
    /\ LET goldData == SelectQuote(gldResponse, goldResponse)
       IN  IF ~Truthy(goldData)
           THEN /\ UNCHANGED cache
                /\ ret' = Thrown("current", CurrentKey, calls[c].reqs,
                                 <<gldResponse, goldResponse>>,
                                 OwnError("No gold data available from API"))
           ELSE LET c1 == set_store(cache, CurrentKey, goldData, CURRENT_PRICE_TTL, now)
                IN  /\ cache' = has_store(c1, CurrentKey, now)
                    /\ ret' = Served("current", CurrentKey, calls[c].reqs,
                                     <<gldResponse, goldResponse>>, c1, goldData, FALSE)

\* the payload fetchHistoricalData caches and returns: the array itself
History(items) == [kind |-> "history", items |-> items]

\* historicalData.sort(...) in the fluctuation handler sorts the array it was
\* handed, which is the array held by the entry under key
SortCached(c, key) ==
    [i \in 1..Len(c) |->
        IF c[i].key = key /\ c[i].data.kind = "history"
        THEN [c[i] EXCEPT !.data = History(SortByDate(c[i].data.items))]
        ELSE c[i]]

\* the handler's work on the store after fetchHistoricalData has returned
AfterHistorical(route, c, key) ==
    IF route = "fluctuation" THEN SortCached(c, key) ELSE c

\* GET /api/gold/historical and GET /api/gold/fluctuation
HistoricalGet(c, route, timeframe, unit) ==
    /\ ~exited
    /\ Free(c)
    /\ UNCHANGED <<now, timerActive, exited>>
    /\ IF ~validateUnit_ok(unit)
       THEN /\ ret' = Rejected(route, "Invalid unit parameter")
            /\ UNCHANGED <<cache, calls>>
       ELSE LET cacheKey == HistoricalKey(timeframe)
                cachedData == get_ret(cache, cacheKey, now)
                c1 == get_store(cache, cacheKey, now)
            IN  IF Truthy(cachedData)
                THEN LET c2 == AfterHistorical(route, c1, cacheKey)
                     IN  /\ cache' = has_store(c2, cacheKey, now)
                         /\ ret' = Served(route, cacheKey, <<>>, <<>>, c2, cachedData, TRUE)
                         /\ UNCHANGED calls
                ELSE LET range == getDateRange(timeframe, now)
                     IN  /\ cache' = c1
                         /\ ret' = Pending(<<>>)
                         /\ calls' = [calls EXCEPT ![c] =
                               Waiting(route, cacheKey, range,
                                       <<HistoricalRequest("GCUSD", range.start, range.end)>>)]

\* lines 352-359 and the rest of the handler: throw on an empty array, else
\* cache it, return it, and answer
\* (variant: the array is cached before it is tested)
HistoricalFinishCacheFirst(c, response, historicalData) ==
    LET route == calls[c].route
        cacheKey == calls[c].key
        c1 == set_store(cache, cacheKey, History(historicalData), HISTORICAL_DATA_TTL, now)
        c2 == AfterHistorical(route, c1, cacheKey)
    IN  /\ calls' = [calls EXCEPT ![c] = IdleCall]
        /\ cache' = has_store(c2, cacheKey, now)
        /\ ret' = IF Len(historicalData) = 0
                  THEN Thrown(route, cacheKey, calls[c].reqs, <<response>>,
                              OwnError("No historical data available from API"))
                  ELSE Served(route, cacheKey, calls[c].reqs, <<response>>, c2,
                              History(historicalData), FALSE)

HistoricalFinish(c, response, historicalData) ==
    LET route == calls[c].route
        cacheKey == calls[c].key
    IN  /\ calls' = [calls EXCEPT ![c] = IdleCall]
        /\ IF Len(historicalData) = 0
           THEN /\ UNCHANGED cache
                /\ ret' = Thrown(route, cacheKey, calls[c].reqs, <<response>>,
                                 OwnError("No historical data available from API"))
           ELSE LET c1 == set_store(cache, cacheKey, History(historicalData),
                                    HISTORICAL_DATA_TTL, now)
                    c2 == AfterHistorical(route, c1, cacheKey)
                IN  /\ cache' = has_store(c2, cacheKey, now)
                    /\ ret' = Served(route, cacheKey, calls[c].reqs, <<response>>, c2,
                                     History(historicalData), FALSE)

\* try { await axios.get(...GCUSD) ... } catch: what enters the catch block
\* (variant: a response without points enters it too)
CaughtOrEmpty(response) ==
    \/ ~response.ok
    \/ response.data.shape = "object"
    \/ response.data.shape = "array" /\ response.data.list = <<>>
    \/ response.data.shape = "wrapped" /\ response.data.historical = <<>>

Caught(response) == ~response.ok

\* the GCUSD request of fetchHistoricalData comes back
HistoricalPrimary(c, response) ==
    /\ ~exited
    /\ calls[c].route \in {"historical", "fluctuation"} /\ calls[c].pc = "await"
    /\ UNCHANGED <<now, timerActive, exited>>
    /\ IF Caught(response)
       THEN /\ UNCHANGED cache
            /\ ret' = Pending(<<response>>)
            /\ calls' = [calls EXCEPT ![c].pc = "await2",
                                      ![c].reqs = Append(@,
                                          HistoricalRequest("GLD", calls[c].range.start,
                                                            calls[c].range.end))]
       ELSE HistoricalFinish(c, response, NormalizeHistorical(response.data))

\* the GLD request of the catch block comes back
HistoricalSecondary(c, response) ==
    /\ ~exited
    /\ calls[c].route \in {"historical", "fluctuation"} /\ calls[c].pc = "await2"
    /\ UNCHANGED <<now, timerActive, exited>>
    /\ IF ~response.ok
       THEN /\ UNCHANGED cache
            /\ calls' = [calls EXCEPT ![c] = IdleCall]
            /\ ret' = Thrown(calls[c].route, calls[c].key, calls[c].reqs, <<response>>,
                             AxiosError)
       ELSE HistoricalFinish(c, response, NormalizeHistorical(response.data))

\* GET /api/gold/date/:date
DateGet(c, date, unit) ==
    /\ ~exited
    /\ Free(c)
    /\ UNCHANGED <<now, timerActive, exited>>
    /\ IF ~validateUnit_ok(unit)
       THEN /\ ret' = Rejected("date", "Invalid unit parameter")
            /\ UNCHANGED <<cache, calls>>
       ELSE IF ~dateRegex_test(date)
       THEN /\ ret' = Rejected("date", "Invalid date format")
            /\ UNCHANGED <<cache, calls>>
       ELSE LET cacheKey == DateKey(date)
                cachedData == get_ret(cache, cacheKey, now)
                c1 == get_store(cache, cacheKey, now)
            IN  IF Truthy(cachedData)
                THEN /\ cache' = has_store(c1, cacheKey, now)
                     /\ ret' = Served("date", cacheKey, <<>>, <<>>, c1, cachedData, TRUE)
                     /\ UNCHANGED calls
                ELSE /\ cache' = c1
                     /\ ret' = Pending(<<>>)
                     /\ calls' = [calls EXCEPT ![c] =
                           Waiting("date", cacheKey, [start |-> date, end |-> date],
                                   <<HistoricalRequest("GCUSD", date, date)>>)]

\* the GCUSD request of fetchDateSpecificData comes back
\* (variant: the point is cached with the ttl of historical data)
DateResponseHistoricalTtl(c, response) ==
    /\ ~exited
    /\ calls[c].route = "date" /\ calls[c].pc = "await"
    /\ UNCHANGED <<now, timerActive, exited>>
    /\ calls' = [calls EXCEPT ![c] = IdleCall]
    /\ IF ~response.ok
       THEN /\ UNCHANGED cache
            /\ ret' = Thrown("date", calls[c].key, calls[c].reqs, <<response>>, AxiosError)
       ELSE LET dateData == DateData(response.data)
            IN  IF ~Truthy(dateData)
                THEN /\ UNCHANGED cache
                     /\ ret' = Thrown("date", calls[c].key, calls[c].reqs, <<response>>,
                                      OwnError("No data found for date"))
                ELSE LET c1 == set_store(cache, calls[c].key, dateData,
                                         HISTORICAL_DATA_TTL, now)
                     IN  /\ cache' = has_store(c1, calls[c].key, now)
                         /\ ret' = Served("date", calls[c].key, calls[c].reqs,
                                          <<response>>, c1, dateData, FALSE)

DateResponse(c, response) ==
    /\ ~exited
    /\ calls[c].route = "date" /\ calls[c].pc = "await"
    /\ UNCHANGED <<now, timerActive, exited>>
    /\ calls' = [calls EXCEPT ![c] = IdleCall]
    /\ IF ~response.ok
       THEN /\ UNCHANGED cache
            /\ ret' = Thrown("date", calls[c].key, calls[c].reqs, <<response>>, AxiosError)
       ELSE LET dateData == DateData(response.data)
            IN  IF ~Truthy(dateData)
                THEN /\ UNCHANGED cache
                     /\ ret' = Thrown("date", calls[c].key, calls[c].reqs, <<response>>,
                                      OwnError("No data found for date"))
                ELSE LET c1 == set_store(cache, calls[c].key, dateData,
                                         DATE_SPECIFIC_TTL, now)
                     IN  /\ cache' = has_store(c1, calls[c].key, now)
                         /\ ret' = Served("date", calls[c].key, calls[c].reqs,
                                          <<response>>, c1, dateData, FALSE)

\* GET /api/cache/stats
StatsRequest == ~exited /\ DoGetStats

\* POST /api/cache/clear
ClearRequest == ~exited /\ DoClear

\* SIGINT, SIGTERM: cache.destroy(), process.exit(0)
\* (variant: the process exits without cache.destroy())
ShutdownWithoutDestroy ==
    /\ ~exited
    /\ exited' = TRUE
    /\ ret' = [op |-> "destroy"]
    /\ UNCHANGED <<cache, now, timerActive, calls>>

Shutdown ==
    /\ ~exited
    /\ timerActive' = FALSE
    /\ cache' = clear_store(cache)
    /\ exited' = TRUE
    /\ ret' = [op |-> "destroy"]
    /\ UNCHANGED <<now, calls>>

Next ==
    \/ Tick
    \/ Cleanup
    \/ \E c \in CallIds, unit \in UnitParams : CurrentRequest(c, unit)
    \/ \E c \in CallIds, gld \in QuoteOutcomes("GLD"), gold \in QuoteOutcomes("GCUSD") :
          CurrentSettled(c, gld, gold)
    \/ \E c \in CallIds, route \in {"historical", "fluctuation"},
          timeframe \in TimeframeParams, unit \in UnitParams :
          HistoricalGet(c, route, timeframe, unit)
    \/ \E c \in CallIds, response \in HistoricalOutcomes : HistoricalPrimary(c, response)
    \/ \E c \in CallIds, response \in HistoricalOutcomes : HistoricalSecondary(c, response)
    \/ \E c \in CallIds, date \in DateParams, unit \in UnitParams : DateGet(c, date, unit)
    \/ \E c \in CallIds, response \in HistoricalOutcomes : DateResponse(c, response)
    \/ StatsRequest
    \/ ClearRequest
    \/ Shutdown

Spec == Init /\ [][Next]_vars

\* The same program with what its scheduling guarantees: the clock advances
\* and the interval timer of the cache keeps firing while it is armed.
\* Nothing makes a request arrive, and nothing makes the upstream service
\* answer: the axios.get calls carry no timeout, so a request that is never
\* answered stays pending.
LiveSpec == Init /\ [][Next]_vars /\ WF_vars(Tick) /\ WF_vars(Cleanup)

----------------------------------------------------------------------------
(* Properties of the store, checked under StoreSpec *)

\* the entries of a store, as a set
Entries(c) == {c[i] : i \in 1..Len(c)}

\* C1: in every reachable state of the store, driven by set, get, has, delete,
\* clear and the maintenance sweep with keys that include the empty string, the
\* number of stored entries is at most MAX_CACHE_SIZE.
C1_SizeNeverExceedsMax == Len(cache) <= MAX_CACHE_SIZE

\* C2: a set of an absent key on a store holding exactly MAX_CACHE_SIZE entries
\* removes exactly the first-inserted entry and appends the new one, and a get
\* or has of an unexpired entry leaves the store, and so the next victim, as it was.
C2_FifoEvictionAtCapacity ==
    [][/\ (ret'.op = "set" /\ Len(cache) = MAX_CACHE_SIZE /\ ~MapHas(cache, ret'.key))
          => /\ Len(cache') = MAX_CACHE_SIZE
             /\ MapKeys(cache') = (MapKeys(cache) \ {cache[1].key}) \cup {ret'.key}
             /\ \A i \in 2..Len(cache) : cache'[i - 1] = cache[i]
             /\ cache'[Len(cache')].key = ret'.key
       /\ (ret'.op \in {"get", "has"}
           /\ \E e \in Entries(cache) : e.key = ret'.key /\ now - e.timestamp <= e.ttl)
          => cache' = cache
      ]_vars

\* C3: get(key) returns the stored value exactly when an entry for key exists
\* with now - timestamp <= ttl (the boundary included), and null otherwise,
\* whether or not a sweep has run.
C3_GetReturnsValueIffUnexpired ==
    [][ret'.op = "get" =>
         LET live == {e \in Entries(cache) :
                        e.key = ret'.key /\ now - e.timestamp <= e.ttl}
         IN  /\ live # {} => \E e \in live : ret'.val = e.data
             /\ live = {} => ret'.val = Null
      ]_vars

\* C3 witness: a get has just returned the value of an entry that is exactly
\* ttl old, and the entry is still stored.
C3_Witness ==
    /\ ret.op = "get"
    /\ ret.val # Null
    /\ \E e \in Entries(cache) :
          e.key = ret.key /\ now - e.timestamp = e.ttl /\ ret.val = e.data

\* C9: a maintenance tick removes every entry with now - timestamp > ttl,
\* removes no other entry, adds none, and keeps the order of the rest.
C9_SweepRemovesExactlyExpired ==
    [][ret'.op = "cleanup" =>
         /\ \A e \in Entries(cache) :
               (e \in Entries(cache')) <=> ~(now - e.timestamp > e.ttl)
         /\ Entries(cache') \subseteq Entries(cache)
         /\ \A i, j \in 1..Len(cache') :
               i < j => MapIndex(cache, cache'[i].key) < MapIndex(cache, cache'[j].key)
      ]_vars

\* C9 witness: a sweep has just removed some entries and kept others.
C9_Witness ==
    /\ ret.op = "cleanup"
    /\ ret.removed > 0
    /\ Len(cache) > 0

\* C10: getStats() leaves the store exactly as it was, reports the number of
\* stored entries (expired ones included) as size, and flags each entry as
\* expired exactly when now - timestamp > ttl.
C10_StatsDoesNotMutate ==
    [][ret'.op = "getStats" =>
         /\ cache' = cache
         /\ ret'.size = Len(cache)
         /\ Len(ret'.entries) = Len(cache)
         /\ \A i \in 1..Len(cache) :
               /\ ret'.entries[i].key = cache[i].key
               /\ ret'.entries[i].expired = (now - cache[i].timestamp > cache[i].ttl)
      ]_vars

\* C10 witness: getStats has just reported an expired entry, which is still stored.
C10_Witness ==
    /\ ret.op = "getStats"
    /\ ret.size = Len(cache)
    /\ \E i \in 1..Len(cache) :
          ret.entries[i].expired /\ now - cache[i].timestamp > cache[i].ttl

\* C11: has(key) returns true exactly when get(key) at the same time returns
\* a value; a get or has of a key whose entry is stored but expired removes
\* that entry and no other (the size drops by one, the rest keeps its order),
\* and a get or has of an unexpired or absent key leaves the store as it was.
C11_GetHasFrame ==
    [][ret'.op \in {"get", "has"} =>
         LET k == ret'.key
             stale == {e \in Entries(cache) : e.key = k /\ now - e.timestamp > e.ttl}
         IN  /\ ret'.op = "has" => (ret'.val <=> get_ret(cache, k, now) # Null)
             /\ ret'.op = "get" => (ret'.val # Null <=> has_ret(cache, k, now))
             /\ stale # {} =>
                   /\ Len(cache') = Len(cache) - 1
                   /\ Entries(cache') = Entries(cache) \ stale
                   /\ cache' = SelectSeq(cache, LAMBDA e : e.key # k)
             /\ stale = {} => cache' = cache
      ]_vars

\* C11 witness: a has has just returned false for a key that is no longer
\* stored, at a time when the store still holds an expired entry of another key.
C11_Witness ==
    /\ ret.op = "has"
    /\ ~ret.val
    /\ ~MapHas(cache, ret.key)
    /\ \E e \in Entries(cache) : e.key # ret.key /\ now - e.timestamp > e.ttl

\* C12: a set of a key that is already stored replaces that key's entry by
\* one with the new value, the time of the call and the new ttl, removes no
\* other entry and leaves the size as it was, also when the store holds
\* MAX_CACHE_SIZE entries; a set removes an entry of another key only when
\* the store holds MAX_CACHE_SIZE entries and the key is not stored.
C12_OverwriteReplacesOnlyOwnEntry ==
    [][ret'.op = "set" =>
         LET k == ret'.key
         IN  /\ MapHas(cache, k) =>
                   /\ Len(cache') = Len(cache)
                   /\ MapKeys(cache') = MapKeys(cache)
                   /\ \A e \in Entries(cache) : e.key # k => e \in Entries(cache')
                   /\ MapGet(cache', k).timestamp = now
             /\ (\E e \in Entries(cache) : e.key # k /\ e \notin Entries(cache'))
                   => (Len(cache) >= MAX_CACHE_SIZE /\ ~MapHas(cache, k))
      ]_vars

\* C21: no step changes the relative position of two keys that are stored
\* before and after it, a set of a stored key included, whether or not the
\* store holds MAX_CACHE_SIZE entries at that set; and a key that a step
\* inserts goes behind all the stored ones.  The eviction order of two stored
\* keys is then the order of their insertions since they were last absent.
C21_OverwriteKeepsEvictionOrder ==
    [][/\ \A k1, k2 \in MapKeys(cache) \cap MapKeys(cache') :
            MapIndex(cache, k1) < MapIndex(cache, k2)
            => MapIndex(cache', k1) < MapIndex(cache', k2)
       /\ \A k \in MapKeys(cache') \ MapKeys(cache) :
            MapIndex(cache', k) = Len(cache')
      ]_vars

----------------------------------------------------------------------------
(* Properties of the server, checked under Spec *)

\* the last step sent a response of a route that fetches
Responded(r) == r.op = "res"

\* an upstream body that carries no historical point
NoPoints(data) ==
    \/ data.shape = "object"
    \/ data.shape = "array" /\ data.list = <<>>
    \/ data.shape = "wrapped" /\ data.historical = <<>>

\* the points of an upstream body that carries some
PointsOf(data) == IF data.shape = "array" THEN data.list ELSE data.historical

\* the store holds an entry for key k that is within its ttl
ValidEntry(c, k, t) == \E e \in Entries(c) : e.key = k /\ t - e.timestamp <= e.ttl

\* C4: a current-quote request that misses the cache issues the GLD and the
\* GCUSD request; when both have settled the handler answers with the GCUSD
\* quote if that request succeeded with a quote, else with the GLD quote if
\* that one did, and caches what it answers with; else it fails with the
\* no-data error and the store is left as it was.
C4_CurrentQuoteSelection ==
    [][/\ \A c \in CallIds :
            (calls[c].pc = "idle" /\ calls'[c].pc = "await" /\ calls'[c].route = "current")
            => {calls'[c].reqs[i] : i \in 1..Len(calls'[c].reqs)}
                 = {QuoteRequest("GLD"), QuoteRequest("GCUSD")}
       /\ (Responded(ret') /\ ret'.route = "current" /\ ret'.upstream # <<>>) =>
            LET gld == ret'.upstream[1]
                gold == ret'.upstream[2]
                goldHas == gold.ok /\ gold.data # <<>>
                gldHas == gld.ok /\ gld.data # <<>>
                chosen == IF goldHas THEN gold.data[1] ELSE gld.data[1]
            IN  /\ {ret'.reqs[i] : i \in 1..Len(ret'.reqs)}
                     = {QuoteRequest("GLD"), QuoteRequest("GCUSD")}
                /\ IF goldHas \/ gldHas
                   THEN /\ ret'.status = 200
                        /\ ret'.data = chosen
                        /\ \E e \in Entries(cache') : e.key = CurrentKey /\ e.data = chosen
                   ELSE /\ ret'.status = 500
                        /\ ret'.thrown = OwnError("No gold data available from API")
                        /\ cache' = cache
      ]_vars

\* C4 witness: a current-quote fetch has just answered with the GLD quote, the
\* GCUSD request having brought none, and the GLD quote is cached.
C4_Witness ==
    /\ Responded(ret)
    /\ ret.route = "current" /\ ret.status = 200 /\ ~ret.hit
    /\ ret.data = Quote("GLD")
    /\ \E e \in Entries(cache) : e.key = CurrentKey /\ e.data = Quote("GLD")

\* C5: a historical fetch that misses the cache issues the GLD request exactly
\* when the GCUSD request was rejected, after it, once, and for the same
\* from/to; a GCUSD response without points ends the fetch in failure with no
\* GLD request, and so does a GLD response that is a rejection or has no points.
C5_SequentialFallback ==
    [][\A c \in CallIds :
         (calls[c].route \in {"historical", "fluctuation"} /\ calls'[c] # calls[c]) =>
           LET r == ret'.upstream[1]
           IN  /\ Len(ret'.upstream) = 1
               /\ calls[c].pc = "await" =>
                    /\ Len(calls[c].reqs) = 1 /\ calls[c].reqs[1].symbol = "GCUSD"
                    /\ IF ~r.ok
                       THEN /\ calls'[c].pc = "await2"
                            /\ Len(calls'[c].reqs) = 2
                            /\ calls'[c].reqs[1] = calls[c].reqs[1]
                            /\ calls'[c].reqs[2].symbol = "GLD"
                            /\ calls'[c].reqs[2].from = calls[c].reqs[1].from
                            /\ calls'[c].reqs[2].to = calls[c].reqs[1].to
                       ELSE /\ calls'[c].pc = "idle"
                            /\ Responded(ret')
                            /\ ret'.reqs = calls[c].reqs
                            /\ NoPoints(r.data) => (ret'.status = 500 /\ cache' = cache)
               /\ calls[c].pc = "await2" =>
                    /\ calls'[c].pc = "idle"
                    /\ Responded(ret')
                    /\ ret'.reqs = calls[c].reqs
                    /\ Len(ret'.reqs) = 2
                    /\ ret'.reqs[1].symbol = "GCUSD" /\ ret'.reqs[2].symbol = "GLD"
                    /\ ret'.reqs[2].from = ret'.reqs[1].from
                    /\ ret'.reqs[2].to = ret'.reqs[1].to
                    /\ (~r.ok \/ NoPoints(r.data)) => (ret'.status = 500 /\ cache' = cache)
      ]_vars

\* C5 witness: a historical fetch has just answered from the GLD request, issued
\* for the range of the rejected GCUSD request, at a later time than that one.
C5_Witness ==
    /\ Responded(ret)
    /\ ret.route \in {"historical", "fluctuation"} /\ ret.status = 200
    /\ Len(ret.reqs) = 2
    /\ ret.reqs[2].symbol = "GLD"
    /\ ret.reqs[2].from = ret.reqs[1].from /\ ret.reqs[2].to = ret.reqs[1].to
    /\ ret.reqs[1].to < Today(now)

\* C6: a fetch that fails, fails with an error the fetch function itself
\* created (a no-data error), never with the error of an upstream request.
C6_OnlyOwnNoDataError ==
    (Responded(ret) /\ ret.status = 500) => ret.thrown.name = "Error"

\* C7: a request whose key has an entry within its ttl, written by an earlier
\* fetch of that key, is answered from that entry: no handler starts to wait
\* for an upstream request while its key has such an entry, and a request that
\* is answered at once and is not rejected as invalid is answered with the
\* data of such an entry, having issued no upstream request.
C7_RefetchWithinTtlIsHit ==
    [][/\ \A c \in CallIds :
            (calls[c].pc = "idle" /\ calls'[c].pc # "idle")
            => ~ValidEntry(cache, calls'[c].key, now)
       /\ (Responded(ret') /\ ret'.status # 400 /\ calls' = calls) =>
            /\ ret'.hit /\ ret'.status = 200
            /\ ret'.reqs = <<>> /\ ret'.upstream = <<>>
            /\ ValidEntry(cache, ret'.key, now)
            /\ ret'.data = MapGet(cache, ret'.key).data
       /\ (Responded(ret') /\ ret'.hit) => (calls' = calls /\ ret'.reqs = <<>>)
      ]_vars

\* C7 witness: a request has just been answered from an entry that is exactly
\* ttl old, at a later time than the fetch that wrote it, with no upstream request.
C7_Witness ==
    /\ Responded(ret)
    /\ ret.hit /\ ret.status = 200 /\ ret.reqs = <<>>
    /\ \E e \in Entries(cache) :
          e.key = ret.key /\ e.ttl > 0 /\ now - e.timestamp = e.ttl /\ e.data = ret.data

\* every stored payload is a quote, a non-empty list of points or a point
PayloadsUsable ==
    \A e \in Entries(cache) :
        \/ e.data.kind \in {"quote", "point"}
        \/ e.data.kind = "history" /\ e.data.items # <<>>

\* an upstream response that succeeded and carries data
HasData(route, r) ==
    r.ok /\ (IF route = "current" THEN r.data # <<>> ELSE ~NoPoints(r.data))

\* C8: the step in which a fetch fails leaves the store as it was; an entry
\* appears in the store (a key or a timestamp it did not hold) only in the
\* step in which a fetch of that key answers with data an upstream response
\* of that step brought; and every stored payload is a quote, a non-empty
\* list of points or a point.
C8_FailedFetchWritesNothing ==
    /\ []PayloadsUsable
    /\ [][/\ (Responded(ret') /\ ret'.status # 200) => cache' = cache
          /\ \A e \in Entries(cache') :
                (\A o \in Entries(cache) : o.key # e.key \/ o.timestamp # e.timestamp)
                => /\ Responded(ret') /\ ret'.status = 200 /\ ~ret'.hit
                   /\ ret'.key = e.key
                   /\ \E i \in 1..Len(ret'.upstream) : HasData(ret'.route, ret'.upstream[i])
         ]_vars

\* C8 witness: a fetch has just failed after its upstream requests and the
\* store holds no entry under its key, while it holds another entry.
C8_Witness ==
    /\ Responded(ret)
    /\ ret.status = 500 /\ ret.reqs # <<>>
    /\ ~MapHas(cache, ret.key)
    /\ Len(cache) > 0

\* the last step ended a fetch that had gone upstream and stored what it brought
Fetched(r) == Responded(r) /\ r.status = 200 /\ ~r.hit

\* C13: the payload of an entry is exactly what the fetch function stored and
\* returned, the order of the points of a historical list included, and it
\* stays so in every step that does not store a new payload under its key,
\* whichever request the step serves.
C13_CachedPayloadNeverMutated ==
    [][/\ \A e \in Entries(cache'), o \in Entries(cache) :
            (e.key = o.key /\ ~(Fetched(ret') /\ ret'.key = e.key)) => e.data = o.data
       /\ Fetched(ret') =>
            \E e \in Entries(cache') : e.key = ret'.key /\ e.data = ret'.data
      ]_vars

\* C14: the cached flag of a response with data is true exactly when the
\* fetch function returned at its cache check, having issued no upstream
\* request, and false when it went upstream in that call.
C14_CachedFlagMeansServedFromCache ==
    (Responded(ret) /\ ret.status = 200) =>
        /\ ret.cached <=> ret.hit
        /\ ret.cached <=> ret.reqs = <<>>

\* the last step rejected a request as invalid
Invalid(r) == Responded(r) /\ r.status = 400

\* the step is the arrival of a request: it is answered at once, or a handler
\* starts to wait
RequestArrives ==
    \/ Responded(ret') /\ calls' = calls
    \/ \E c \in CallIds : calls[c].pc = "idle" /\ calls'[c].pc # "idle"

\* C15: a request whose unit is not recognized, or whose date is not of the
\* form YYYY-MM-DD, is answered as invalid in the step in which it arrives (a
\* step in which a request arrives and is not answered as invalid is the step
\* of no such request), and the step that answers a request as invalid issues
\* no upstream request, starts no fetch and leaves the store, expired entries
\* included, as it was.
C15_InvalidParameterRejectedFirst ==
    [][/\ Invalid(ret') => (cache' = cache /\ calls' = calls /\ ret'.reqs = <<>>)
       /\ (RequestArrives /\ ~Invalid(ret')) =>
            \A c \in CallIds, unit \in UnitParams :
               /\ validateUnit_ok(unit) \/ ~CurrentRequest(c, unit)
               /\ \A route \in {"historical", "fluctuation"}, timeframe \in TimeframeParams :
                     validateUnit_ok(unit) \/ ~HistoricalGet(c, route, timeframe, unit)
               /\ \A date \in DateParams :
                     (validateUnit_ok(unit) /\ dateRegex_test(date))
                     \/ ~DateGet(c, date, unit)
      ]_vars

\* C15 witness: a current-quote request has just been rejected for its unit
\* while the store holds an expired entry under the current-quote key, which
\* a lookup would have removed.
C15_Witness ==
    /\ Invalid(ret)
    /\ ret.route = "current"
    /\ \E e \in Entries(cache) : e.key = CurrentKey /\ now - e.timestamp > e.ttl

\* two payloads with the same content, the order of the points of a list aside
SameContent(a, b) ==
    IF a.kind = "history" /\ b.kind = "history"
    THEN /\ Len(a.items) = Len(b.items)
         /\ {a.items[i] : i \in 1..Len(a.items)} = {b.items[i] : i \in 1..Len(b.items)}
    ELSE a = b

\* C16: every handler that waits has issued upstream requests of its own, also
\* when another handler waits for the same key; and the step in which a
\* waiting handler ends its fetch with data leaves under its key the entry it
\* wrote (its data, stamped with the time of the step), whether or not the
\* other handler has written the key in between.
C16_OverlappingFetchesLastWriteWins ==
    /\ [](\A c \in CallIds : calls[c].pc # "idle" => calls[c].reqs # <<>>)
    /\ [][\A c \in CallIds :
            (calls[c].pc # "idle" /\ calls'[c].pc = "idle" /\ Fetched(ret')) =>
               /\ ret'.reqs = calls[c].reqs
               /\ \E e \in Entries(cache') :
                     /\ e.key = calls[c].key
                     /\ e.timestamp = now
                     /\ SameContent(e.data, ret'.data)
         ]_vars

\* C16 witness: a current-quote fetch has just written the GCUSD quote while
\* the other handler, which read the cache before that write, still waits
\* for its own requests for the same key.
C16_Witness ==
    /\ Fetched(ret)
    /\ ret.key = CurrentKey /\ ret.data = Quote("GCUSD")
    /\ \E e \in Entries(cache) : e.key = CurrentKey /\ e.data = Quote("GCUSD")
    /\ \E c \in CallIds :
          calls[c].pc = "await" /\ calls[c].key = CurrentKey /\ calls[c].reqs # <<>>

\* C17: the cleanup timer is armed from the construction of the cache until
\* shutdown, and until then a tick can run whatever the handlers are doing;
\* after shutdown the timer is off for good, the store is empty and nothing
\* runs any more; and a tick is one step that leaves no expired entry behind
\* and touches nothing but the store.
C17_MaintenanceLoopLifecycle ==
    /\ [](timerActive <=> ~exited)
    /\ [](~exited => ENABLED Cleanup)
    /\ [](exited => cache = <<>>)
    /\ [][/\ exited => UNCHANGED vars
          /\ ret'.op = "cleanup" =>
                /\ timerActive /\ ~exited
                /\ \A e \in Entries(cache') : ~(now - e.timestamp > e.ttl)
                /\ UNCHANGED <<now, timerActive, calls, exited>>
         ]_vars

\* C17 witness: a tick has just removed an expired entry while a handler
\* waits for its upstream response.
C17_Witness ==
    /\ ret.op = "cleanup"
    /\ ret.removed > 0
    /\ timerActive
    /\ \E c \in CallIds : calls[c].pc # "idle"

\* C18: every handler that has started a fetch and waits for an upstream
\* response eventually ends its fetch (with data or with a failure) while the
\* process runs, also when the upstream service never answers.
C18_EveryFetchCompletes ==
    \A c \in CallIds : (calls[c].pc # "idle") ~> (calls[c].pc = "idle" \/ exited)

\* the keys of each kind, over the request parameters and a few more tokens
KeyTokens == TimeframeParams \cup DateParams \cup {"", "1M", "gold_price"}
HistoricalKeys == {HistoricalKey(x) : x \in KeyTokens}
DateKeys == {DateKey(x) : x \in KeyTokens}

\* C19: the keys of the three kinds are pairwise different, and every stored
\* entry is of one kind, with the payload and the ttl of that kind: a quote
\* with CURRENT_PRICE_TTL under the current-quote key, a list of points with
\* HISTORICAL_DATA_TTL under a historical key, a point with DATE_SPECIFIC_TTL
\* under a date key.
C19_EntryTtlByKind ==
    /\ CurrentKey \notin HistoricalKeys \cup DateKeys
    /\ HistoricalKeys \cap DateKeys = {}
    /\ \A e \in Entries(cache) :
          /\ e.key \in {CurrentKey} \cup HistoricalKeys \cup DateKeys
          /\ e.key = CurrentKey =>
                (e.ttl = CURRENT_PRICE_TTL /\ e.data.kind = "quote")
          /\ e.key \in HistoricalKeys =>
                (e.ttl = HISTORICAL_DATA_TTL /\ e.data.kind = "history")
          /\ e.key \in DateKeys =>
                (e.ttl = DATE_SPECIFIC_TTL /\ e.data.kind = "point")

\* C19 witness: the store holds a historical list and a date point at once,
\* each with the ttl of its kind.
C19_Witness ==
    \E e1, e2 \in Entries(cache) :
        /\ e1.key \in HistoricalKeys /\ e1.ttl = HISTORICAL_DATA_TTL
        /\ e2.key \in DateKeys /\ e2.ttl = DATE_SPECIFIC_TTL

\* C20: the step of a clear leaves the store empty and the waiting handlers
\* as they were; and a handler that ends its fetch with data writes its entry
\* whatever has happened to the store since its request was issued, stamped
\* with the time of the step in which it is written, so that the store holds
\* that entry again after the clear.
C20_ClearDoesNotCancelFetch ==
    [][/\ ret'.op = "clear" => (cache' = <<>> /\ calls' = calls)
       /\ \A c \in CallIds :
            (calls[c].pc # "idle" /\ calls'[c].pc = "idle" /\ Fetched(ret')) =>
               /\ MapHas(cache', calls[c].key)
               /\ MapGet(cache', calls[c].key).timestamp = now
               /\ calls[c].route \in {"historical", "fluctuation"} =>
                     MapGet(cache', calls[c].key).timestamp >= calls[c].range.end
      ]_vars

\* C20 witness: a clear has just emptied the store while a historical fetch,
\* whose request was issued at an earlier time, still waits for its response.
C20_Witness ==
    /\ ret.op = "clear"
    /\ cache = <<>>
    /\ \E c \in CallIds :
          /\ calls[c].pc # "idle"
          /\ calls[c].route \in {"historical", "fluctuation"}
          /\ calls[c].range.end < Today(now)

====
